---- MODULE Spec2Model ----
(***************************************************************************)
(* A model of indented_logger: the thread-local depth counter (indent.py), *)
(* the log_indent scope guard (decorator.py), the structured dumper        *)
(* (smart_logger.py) and the line renderer IndentFormatter (formatter.py). *)
(***************************************************************************)
EXTENDS Integers, Sequences, FiniteSets, TLC

VARIABLES
    has_attr,       \* has_attr[s]: slot s of _thread_local has the attribute indent_level
    indent_level,   \* indent_level[s]: _thread_local.indent_level of slot s
    running,        \* running[t]: the unit of work that thread t is executing
    stack,          \* stack[u]: depths at entry of the log_indent wrappers active in unit u
    exc,            \* exc[u]: an exception is propagating in unit u
    hist,           \* hist[t]: the calls made on thread t, each with the depth it left
    actor,          \* the unit that took the last step
    heap,           \* heap[id]: the dict, list or object with identity id
    phase,          \* "build", or the state of the smart_indent_log call
    args,           \* the arguments of the smart_indent_log call
    dstack,         \* the active _log_object / _log_list calls, innermost last
    visited,        \* _visited
    out,            \* the records handed to logger_object.debug by the call
    ncalls,         \* top-level calls of smart_indent_log made so far
    first_out,      \* the records of the first call
    ctor,           \* the arguments IndentFormatter was constructed with
    fmt,            \* the attributes of the IndentFormatter
    rendered        \* what the calls of format on the last record computed

indentVars == <<has_attr, indent_level, running, stack, exc, hist, actor>>

dumpVars == <<heap, phase, args, dstack, visited, out, ncalls, first_out>>

fmtVars == <<ctor, fmt, rendered>>

vars == <<indentVars, dumpVars, fmtVars>>

\* what the depth tracker and the scope guard leave alone
restOfIndent == <<dumpVars, fmtVars>>

\* what the dumper leaves alone
restOfDump == <<indentVars, fmtVars>>

\* what the formatter leaves alone
restOfFormat == <<indentVars, dumpVars>>

----------------------------------------------------------------------------
(* Bounds *)

MaxHist == 5        \* calls recorded per thread

MaxItems == 5       \* items of the dumped structure, all dicts and lists together

MaxRefs == 2        \* items of the dumped structure that are dicts or lists

----------------------------------------------------------------------------
(* Execution units: two cooperative tasks of thread A, and thread B *)

Threads == {"A", "B"}

Units == {"a1", "a2", "b"}

ThreadOf(u) == IF u \in {"a1", "a2"} THEN "A" ELSE IF u = "b" THEN "B" ELSE "none"

UnitsOf(t) == {u \in Units : ThreadOf(u) = t}

Max(a, b) == IF a >= b THEN a ELSE b

----------------------------------------------------------------------------
(* indent.py *)

\* a counter shared by every thread (a module global instead of threading.local)
global_slot(thread) == "A"

\* _thread_local = threading.local(): one attribute namespace per thread
thread_local_slot(thread) == thread

\* get_indent_level(): the value returned (0 when the attribute is missing)
get_indent_level(s) == IF has_attr[s] THEN indent_level[s] ELSE 0

\* the depth a unit of work reads
LevelSeenBy(u) == get_indent_level(thread_local_slot(ThreadOf(u)))

LevelOfThread(t) == get_indent_level(thread_local_slot(t))

increase_value(current) == current + 1

\* decrease without the clamp
decrease_unclamped(current) == current - 1

\* decrease_indent: max(current - 1, 0)
decrease_value(current) == Max(current - 1, 0)

\* the wrapper forgets increase_indent()
enter_without_increase(current) == current

\* log_indent, before the body: increase_indent()
log_indent_enter(current) == increase_value(current)

\* decrease_indent() after the body instead of in a finally block
exit_without_finally(current, how) ==
    IF how = "raise" THEN current ELSE decrease_value(current)

\* log_indent, finally: decrease_indent() on return and on exception
log_indent_exit(current, how) == decrease_value(current)

SetLevel(s, v) ==
    /\ indent_level' = [indent_level EXCEPT ![s] = v]
    /\ has_attr' = [has_attr EXCEPT ![s] = TRUE]

Record(u, op, d) ==
    hist' = [hist EXCEPT ![ThreadOf(u)] = Append(@, [op |-> op, depth |-> d])]

ActiveOn(t) == LET us == UnitsOf(t)
                   RECURSIVE Sum(_)
                   Sum(S) == IF S = {} THEN 0
                             ELSE LET x == CHOOSE y \in S : TRUE
                                  IN Len(stack[x]) + Sum(S \ {x})
               IN Sum(us)

\* room for n more calls on the thread of u, every active wrapper still to exit
Room(u, n) == Len(hist[ThreadOf(u)]) + ActiveOn(ThreadOf(u)) + n <= MaxHist

CanRun(u) == running[ThreadOf(u)] = u /\ ~exc[u]

\* get_indent_level() called by unit u: creates the attribute at 0 (a call
\* that finds the attribute changes nothing)
Read(u) ==
    /\ CanRun(u)
    /\ LET s == thread_local_slot(ThreadOf(u)) IN
        /\ ~has_attr[s]
        /\ SetLevel(s, get_indent_level(s))
    /\ actor' = u
    /\ UNCHANGED <<running, stack, exc, hist>>
    /\ UNCHANGED restOfIndent

\* increase_indent() called by unit u
Increase(u) ==
    /\ CanRun(u)
    /\ Room(u, 1)
    /\ LET s == thread_local_slot(ThreadOf(u))
           v == increase_value(get_indent_level(s))
       IN SetLevel(s, v) /\ Record(u, "inc", v)
    /\ actor' = u
    /\ UNCHANGED <<running, stack, exc>>
    /\ UNCHANGED restOfIndent

\* decrease_indent() called by unit u
Decrease(u) ==
    /\ CanRun(u)
    /\ Room(u, 1)
    /\ LET s == thread_local_slot(ThreadOf(u))
           v == decrease_value(get_indent_level(s))
       IN SetLevel(s, v) /\ Record(u, "dec", v)
    /\ actor' = u
    /\ UNCHANGED <<running, stack, exc>>
    /\ UNCHANGED restOfIndent

----------------------------------------------------------------------------
(* decorator.py *)

\* a log_indent-wrapped function is called: increase_indent(), then the body
Enter(u) ==
    /\ CanRun(u)
    /\ Room(u, 2)
    /\ LET s == thread_local_slot(ThreadOf(u))
           before == get_indent_level(s)
           v == log_indent_enter(before)
       IN /\ SetLevel(s, v)
          /\ Record(u, "inc", v)
          /\ stack' = [stack EXCEPT ![u] = Append(@, before)]
    /\ actor' = u
    /\ UNCHANGED <<running, exc>>
    /\ UNCHANGED restOfIndent

\* the body of the innermost wrapper ends, by return or by an exception
\* (raised in the body, or propagating out of a call the body made)
Exit(u, how) ==
    /\ running[ThreadOf(u)] = u
    /\ stack[u] # <<>>
    /\ exc[u] => how = "raise"
    /\ LET s == thread_local_slot(ThreadOf(u))
           v == log_indent_exit(get_indent_level(s), how)
       IN SetLevel(s, v) /\ Record(u, "dec", v)
    /\ stack' = [stack EXCEPT ![u] = SubSeq(@, 1, Len(@) - 1)]
    /\ exc' = [exc EXCEPT ![u] = (how = "raise")]
    /\ actor' = u
    /\ UNCHANGED running
    /\ UNCHANGED restOfIndent

\* the caller (a body, or the unit's top level) handles the exception
Catch(u) ==
    /\ running[ThreadOf(u)] = u
    /\ exc[u]
    /\ exc' = [exc EXCEPT ![u] = FALSE]
    /\ actor' = u
    /\ UNCHANGED <<has_attr, indent_level, running, stack, hist>>
    /\ UNCHANGED restOfIndent

\* a cooperative task awaits: another task of the same thread runs. A wrapped
\* function is synchronous: no await happens while a wrapper of the task is active
Yield(u) ==
    /\ CanRun(u)
    /\ stack[u] = <<>>
    /\ \E w \in UnitsOf(ThreadOf(u)) \ {u} :
          running' = [running EXCEPT ![ThreadOf(u)] = w]
    /\ actor' = u
    /\ UNCHANGED <<has_attr, indent_level, stack, exc, hist>>
    /\ UNCHANGED restOfIndent

----------------------------------------------------------------------------
(* smart_logger.py *)

\* the interpreter's recursion limit (1000 frames by default), kept just above the
\* deepest nesting a structure without a cycle can have here
RecursionLimit == MaxRefs + 2

\* the keys of a dict (or the attribute names of an object), in insertion order
Keys == <<"x", "y", "z", "u", "v", "w">>

\* the scalar values (not strings) found in the structure
LeafVals == {1}

Leaf(v) == [ref |-> FALSE, v |-> v]

Ref(id) == [ref |-> TRUE, v |-> id]

\* isinstance(value, dict)
IsDict(item) == item.ref /\ heap[item.v].kind = "dict"

\* isinstance(value, list)
IsList(item) == item.ref /\ heap[item.v].kind = "list"

\* f"{value}": the text of a value logged as a leaf (a scalar prints as itself,
\* any other value as its repr, written here as minus its identity)
Text(item) == IF item.ref THEN 0 - item.v ELSE item.v

\* logger_object.debug(message, extra={"lvl": lvl}); the message is t with its
\* fields: key k, index i, value or length v
Line(t, k, i, v, lvl) == [t |-> t, k |-> k, i |-> i, v |-> v, lvl |-> lvl]

Frame(fn, id, lvl) == [fn |-> fn, id |-> id, lvl |-> lvl, idx |-> 1]

Emit(st, line) == [st EXCEPT !.out = Append(@, line)]

\* the visited set outlives the call (a mutable default argument)
keep_visited(old) == old

\* if _visited is None: _visited = set()
fresh_visited(old) == {}

\* the check for recursion is missing
never_visited(vis, id) == FALSE

\* obj_id in _visited
in_visited(vis, id) == id \in vis

\* a call _log_object(logger_object, obj, lvl, ...) up to its loop
call_log_object(st, id, lvl) ==
    IF Len(st.stack) >= RecursionLimit THEN [st EXCEPT !.raised = TRUE]
    ELSE IF in_visited(st.visited, id)
         THEN Emit(st, Line("recursion", "", 0, 0, lvl))
    ELSE LET st1 == [st EXCEPT !.visited = @ \cup {id}] IN
         IF heap[id].kind \in {"object", "dict"}
         THEN [st1 EXCEPT !.stack = Append(@, Frame("obj", id, lvl))]
         ELSE Emit(st1, Line("value", "", 0, Text(Ref(id)), lvl))

\* a call _log_list(logger_object, lst, lvl, ...) up to its loop
call_log_list(st, id, lvl) ==
    IF Len(st.stack) >= RecursionLimit THEN [st EXCEPT !.raised = TRUE]
    ELSE [st EXCEPT !.stack = Append(@, Frame("list", id, lvl))]

\* the loop of _log_object without the test of exclude
loop_without_exclude(st, key, item, lvl) ==
    IF IsDict(item)
    THEN call_log_object(Emit(st, Line("key", key, 0, 0, lvl)), item.v, lvl + 1)
    ELSE IF IsList(item)
         THEN call_log_list(
                 Emit(st, Line("keylist", key, 0, Len(heap[item.v].items), lvl)),
                 item.v, lvl + 1)
    ELSE Emit(st, Line("keyvalue", key, 0, Text(item), lvl))

\* one iteration of the loop of _log_object: for key, value in dictionary.items()
loop_log_object(st, key, item, lvl) ==
    IF key \in args.exclude THEN st
    ELSE IF IsDict(item)
         THEN call_log_object(Emit(st, Line("key", key, 0, 0, lvl)), item.v, lvl + 1)
    ELSE IF IsList(item)
         THEN call_log_list(
                 Emit(st, Line("keylist", key, 0, Len(heap[item.v].items), lvl)),
                 item.v, lvl + 1)
    ELSE Emit(st, Line("keyvalue", key, 0, Text(item), lvl))

\* one iteration of the loop of _log_list: for index, item in enumerate(lst)
loop_log_list(st, index, item, lvl) ==
    IF IsDict(item)
    THEN call_log_object(Emit(st, Line("index", "", index, 0, lvl)), item.v, lvl + 1)
    ELSE IF IsList(item)
    THEN call_log_list(Emit(st, Line("index", "", index, 0, lvl)), item.v, lvl + 1)
    ELSE Emit(st, Line("indexvalue", "", index, Text(item), lvl))

\* the state of the call after a step: a RecursionError unwinds every frame
Continue(st) ==
    /\ dstack' = IF st.raised THEN <<>> ELSE st.stack
    /\ visited' = st.visited
    /\ out' = st.out
    /\ phase' = IF st.raised THEN "raised"
                ELSE IF st.stack = <<>> THEN "done" ELSE "running"

TotalRefs ==
    LET RECURSIVE Count(_)
        Count(id) == IF id = 0 THEN 0
                     ELSE Cardinality({i \in 1..Len(heap[id].items) : heap[id].items[i].ref})
                          + Count(id - 1)
    IN Count(Len(heap))

TotalItems ==
    LET RECURSIVE Count(_)
        Count(id) == IF id = 0 THEN 0 ELSE Len(heap[id].items) + Count(id - 1)
    IN Count(Len(heap))

\* the caller stores a scalar: d[key] = v, lst.append(v), obj.key = v
AddLeaf(o, v) ==
    /\ phase = "build"
    /\ TotalItems < MaxItems
    /\ heap' = [heap EXCEPT ![o].items = Append(@, Leaf(v))]
    /\ UNCHANGED <<phase, args, dstack, visited, out, ncalls, first_out>>
    /\ UNCHANGED restOfDump

\* the caller stores a dict or list it already holds
AddRef(o, id) ==
    /\ phase = "build"
    /\ TotalItems < MaxItems
    /\ TotalRefs < MaxRefs
    /\ heap' = [heap EXCEPT ![o].items = Append(@, Ref(id))]
    /\ UNCHANGED <<phase, args, dstack, visited, out, ncalls, first_out>>
    /\ UNCHANGED restOfDump

\* the caller stores a new, empty dict or list
AddNew(o, kind) ==
    /\ phase = "build"
    /\ TotalItems < MaxItems
    /\ TotalRefs < MaxRefs
    /\ heap' = Append([heap EXCEPT ![o].items = Append(@, Ref(Len(heap) + 1))],
                      [kind |-> kind, items |-> <<>>])
    /\ UNCHANGED <<phase, args, dstack, visited, out, ncalls, first_out>>
    /\ UNCHANGED restOfDump

\* smart_indent_log(logger_object, obj, lvl, exclude, name) up to the loop of
\* _log_object; obj is the object with identity 1
StartDump(a) ==
    LET named == a.name # ""
        st0 == [stack |-> <<>>, visited |-> fresh_visited(visited), raised |-> FALSE,
                out |-> IF named THEN <<Line("name", a.name, 0, 0, a.lvl)>> ELSE <<>>]
        st1 == call_log_object(st0, 1, IF named THEN a.lvl + 1 ELSE a.lvl)
    IN /\ args' = a
       /\ Continue(st1)
       /\ ncalls' = ncalls + 1
       /\ first_out' = out
       /\ UNCHANGED heap
       /\ UNCHANGED restOfDump

Call(a) ==
    /\ phase = "build"
    /\ StartDump(a)

\* the same call made a second time, on the same structure
CallAgain ==
    /\ phase \in {"done", "raised"}
    /\ ncalls = 1
    /\ StartDump(args)

TopFrame == dstack[Len(dstack)]

\* with the innermost loop advanced to its next item
Advanced == [stack |-> [dstack EXCEPT ![Len(dstack)].idx = @ + 1],
             visited |-> visited, out |-> out, raised |-> FALSE]

\* the loop of the innermost call is over: the call returns
StepReturn ==
    /\ phase = "running"
    /\ TopFrame.idx > Len(heap[TopFrame.id].items)
    /\ Continue([stack |-> SubSeq(dstack, 1, Len(dstack) - 1),
                 visited |-> visited, out |-> out, raised |-> FALSE])
    /\ UNCHANGED <<heap, args, ncalls, first_out>>
    /\ UNCHANGED restOfDump

\* _log_object handles its next key
StepObject ==
    /\ phase = "running"
    /\ TopFrame.fn = "obj"
    /\ TopFrame.idx <= Len(heap[TopFrame.id].items)
    /\ Continue(loop_log_object(Advanced, Keys[TopFrame.idx],
                                heap[TopFrame.id].items[TopFrame.idx], TopFrame.lvl))
    /\ UNCHANGED <<heap, args, ncalls, first_out>>
    /\ UNCHANGED restOfDump

\* _log_list handles its next item
StepList ==
    /\ phase = "running"
    /\ TopFrame.fn = "list"
    /\ TopFrame.idx <= Len(heap[TopFrame.id].items)
    /\ Continue(loop_log_list(Advanced, TopFrame.idx - 1,
                              heap[TopFrame.id].items[TopFrame.idx], TopFrame.lvl))
    /\ UNCHANGED <<heap, args, ncalls, first_out>>
    /\ UNCHANGED restOfDump

\* the arguments the calls are made with: lvl, exclude, name
CallArgs == {[lvl |-> 0, exclude |-> {}, name |-> ""],
             [lvl |-> 1, exclude |-> {"y"}, name |-> ""],
             [lvl |-> 1, exclude |-> {}, name |-> "cfg"]}

RootKinds == {"dict", "list", "object"}

InitDump ==
    /\ \E k \in RootKinds : heap = <<[kind |-> k, items |-> <<>>]>>
    /\ phase = "build"
    /\ args = [lvl |-> 0, exclude |-> {}, name |-> ""]
    /\ dstack = <<>>
    /\ visited = {}
    /\ out = <<>>
    /\ ncalls = 0
    /\ first_out = <<>>

NextDump ==
    \/ \E o \in 1..Len(heap), v \in LeafVals : AddLeaf(o, v)
    \/ \E o \in 1..Len(heap), id \in 1..Len(heap) : AddRef(o, id)
    \/ \E o \in 1..Len(heap), kind \in {"dict", "list"} : AddNew(o, kind)
    \/ \E a \in CallArgs : Call(a)
    \/ CallAgain
    \/ StepReturn
    \/ StepObject
    \/ StepList

----------------------------------------------------------------------------
(* formatter.py *)

\* the escape character '\033', one character like any other
ESC == "ESC"

Digits == {"0", "1", "2", "3", "4", "5", "6", "7", "8", "9"}

COLOR_MAP ==
    [red |-> <<ESC, "[", "3", "1", "m">>, green |-> <<ESC, "[", "3", "2", "m">>,
     yellow |-> <<ESC, "[", "3", "3", "m">>, blue |-> <<ESC, "[", "3", "4", "m">>,
     magenta |-> <<ESC, "[", "3", "5", "m">>, cyan |-> <<ESC, "[", "3", "6", "m">>,
     reset |-> <<ESC, "[", "0", "m">>]

\* logger names, character by character ('__main__' and plain words are one piece)
MainName == <<"__main__">>

LoggerNames == {MainName, <<"app">>, <<"app", ".", "mod">>,
                <<"app", ".", "mod", ".", "sub">>}

\* the values of extra={"lvl": ...}
ManualHints == {-2, 0, 1}

\* the record of logger.info("hi") made in function run of logger 'app'
PlainRecord ==
    [name |-> <<"app">>, has_lvl |-> FALSE, lvl |-> 0,
     msg |-> <<"h", "i">>, args |-> <<>>, has_c |-> FALSE, c |-> "reset",
     levelname |-> <<"I", "N", "F", "O">>, funcName |-> <<"run">>,
     exc_info |-> "none"]

\* records that differ in what indentation reads: the logger name and the
\* lvl attribute, if the record has one
Records ==
    {[PlainRecord EXCEPT !.name = n, !.has_lvl = h, !.lvl = l] :
        <<n, h, l>> \in {x \in LoggerNames \X BOOLEAN \X ManualHints :
                            x[2] \/ x[3] = 0}}

\* ch * n: empty when n is not positive
str_repeat(ch, n) == IF n <= 0 THEN <<>> ELSE [i \in 1..n |-> ch]

\* message texts: plain ones of 2, 50 and 51 characters, and texts that carry
\* escape sequences of their own, of 2 and of 46 visible characters
Messages ==
    {<<"h", "i">>, str_repeat("a", 50), str_repeat("a", 51),
     COLOR_MAP.red \o <<"h", "i">> \o COLOR_MAP.reset,
     COLOR_MAP.red \o str_repeat("a", 46) \o COLOR_MAP.reset}

\* the values of extra={"c": ...}
ColorTags == {"RED", "bogus"}

\* records that differ in what rendering reads: every message without a colour
\* tag, two of them tagged, a message with an argument, one with an argument it
\* has no conversion for, and a record whose exception information cannot be
\* formatted
RenderRecords ==
    {[PlainRecord EXCEPT !.msg = m] : m \in Messages}
    \cup {[PlainRecord EXCEPT !.has_c = TRUE, !.c = c] : c \in ColorTags}
    \cup {[PlainRecord EXCEPT !.msg = str_repeat("a", 51), !.has_c = TRUE, !.c = "RED"],
          [PlainRecord EXCEPT !.msg = <<"x", " ", "%", "s">>, !.args = <<<<"w">>>>],
          [PlainRecord EXCEPT !.args = <<<<"w">>>>],
          [PlainRecord EXCEPT !.exc_info = "bad"]}

\* func_module_format=None
None == <<"None">>

SpacesPerLevel == {0, 2, 4}

\* IndentFormatter(): every argument at its default
DefaultArgs ==
    [include_func |-> FALSE, include_module |-> FALSE, func_module_format |-> None,
     truncate_messages |-> FALSE, min_func_name_col |-> 120,
     indent_modules |-> FALSE, indent_packages |-> FALSE, indent_spaces |-> 4,
     disable_colors |-> FALSE, disable_indent |-> FALSE, no_datetime |-> FALSE]

\* constructor arguments that differ in what indentation reads
CtorArgs ==
    {[DefaultArgs EXCEPT !.indent_modules = a.indent_modules,
                         !.indent_packages = a.indent_packages,
                         !.indent_spaces = a.indent_spaces,
                         !.disable_indent = a.disable_indent] :
        a \in [indent_modules : BOOLEAN, indent_packages : BOOLEAN,
               indent_spaces : SpacesPerLevel, disable_indent : BOOLEAN]}

\* annotation settings: none, module and function, and a template of one's own
\* that names a field format() is not given
AnnotationArgs ==
    {[include_func |-> FALSE, include_module |-> FALSE, func_module_format |-> None],
     [include_func |-> TRUE, include_module |-> TRUE, func_module_format |-> None],
     [include_func |-> TRUE, include_module |-> FALSE,
      func_module_format |-> <<"{foo}">>]}

TargetColumns == {60, 120}

\* constructor arguments that differ in what rendering reads
RenderArgs ==
    {[DefaultArgs EXCEPT !.include_func = a.annotation.include_func,
                         !.include_module = a.annotation.include_module,
                         !.func_module_format = a.annotation.func_module_format,
                         !.truncate_messages = a.truncate_messages,
                         !.min_func_name_col = a.min_func_name_col,
                         !.disable_colors = a.disable_colors,
                         !.no_datetime = a.no_datetime] :
        a \in [annotation : AnnotationArgs, truncate_messages : BOOLEAN,
               min_func_name_col : TargetColumns, disable_colors : BOOLEAN,
               no_datetime : BOOLEAN]}

\* build_func_module_format: the template, a sequence of replacement fields
\* and literal characters
build_func_module_format(a) ==
    IF a.func_module_format = None
    THEN (IF a.include_module THEN <<"{moduleName}">> ELSE <<>>)
         \o (IF a.include_module /\ a.include_func THEN <<":">> ELSE <<>>)
         \o (IF a.include_func THEN <<"{funcName}">> ELSE <<>>)
    ELSE a.func_module_format

\* IndentFormatter.__init__: the attributes of the formatter
formatter_init(a) ==
    [include_func |-> a.include_func,
     include_module |-> a.include_module,
     truncate_messages |-> a.truncate_messages,
     min_func_name_col |-> a.min_func_name_col,
     indent_modules |-> a.indent_modules /\ ~a.disable_indent,
     indent_packages |-> a.indent_packages /\ ~a.disable_indent,
     indent_spaces |-> IF a.disable_indent THEN 0 ELSE a.indent_spaces,
     disable_colors |-> a.disable_colors,
     disable_indent |-> a.disable_indent,
     no_datetime |-> a.no_datetime,
     func_module_format |-> build_func_module_format(a)]

\* text.count(ch)
str_count(text, ch) == Cardinality({i \in 1..Len(text) : text[i] = ch})

\* the least element of a non-empty set of positions
First(positions) == CHOOSE i \in positions : \A j \in positions : i <= j

\* text.find(sub), counted from 1: 0 when sub does not occur
str_find(text, sub) ==
    LET hits == {i \in 1..(Len(text) - Len(sub) + 1) :
                    SubSeq(text, i, i + Len(sub) - 1) = sub}
    IN  IF hits = {} THEN 0 ELSE First(hits)

\* text.replace(old, new, 1)
str_replace_first(text, old, new) ==
    LET at == str_find(text, old)
    IN  IF at = 0 THEN text
        ELSE SubSeq(text, 1, at - 1) \o new
             \o SubSeq(text, at + Len(old), Len(text))

\* f"{text:<width}"
str_ljust(text, width) == text \o str_repeat(" ", width - Len(text))

\* str.lower() of a colour tag
str_lower(tag) == IF tag = "RED" THEN "red" ELSE tag

\* getattr(record, 'lvl', 0)
manual_indent(record) == IF record.has_lvl THEN record.lvl ELSE 0

\* every logger indented by one level, '__main__' too
hierarchy_without_main_check(f, name) ==
    (IF f.indent_modules THEN 1 ELSE 0)
    + (IF f.indent_packages THEN str_count(name, ".") ELSE 0)

\* get_indent: hierarchy_indent
hierarchy_indent(f, name) ==
    (IF f.indent_modules /\ name # MainName THEN 1 ELSE 0)
    + (IF f.indent_packages THEN str_count(name, ".") ELSE 0)

\* IndentFormatter.get_indent(record), thread_indent being get_indent_level()
get_indent(f, record, thread_indent) ==
    IF f.disable_indent THEN <<>>
    ELSE str_repeat(" ", (thread_indent + manual_indent(record)
                          + hierarchy_indent(f, record.name)) * f.indent_spaces)

\* where the match of \033\[\d+m that starts at position i ends: 0 when no
\* match starts there
match_end(text, i) ==
    IF i + 3 <= Len(text) /\ text[i] = ESC /\ text[i + 1] = "["
    THEN LET ends == {j \in (i + 3)..Len(text) :
                         /\ text[j] = "m"
                         /\ \A k \in (i + 2)..(j - 1) : text[k] \in Digits}
         IN  IF ends = {} THEN 0 ELSE First(ends)
    ELSE 0

\* strip_color_codes: re.sub(r'\033\[\d+m', '', text)
RECURSIVE strip_color_codes(_)
strip_color_codes(text) ==
    LET starts == {i \in 1..Len(text) : match_end(text, i) > 0}
    IN  IF starts = {} THEN text
        ELSE LET i == First(starts)
             IN  SubSeq(text, 1, i - 1)
                 \o strip_color_codes(SubSeq(text, match_end(text, i) + 1, Len(text)))

\* apply_colors
apply_colors(f, text, color_name) ==
    IF f.disable_colors THEN text
    ELSE LET color == IF str_lower(color_name) \in DOMAIN COLOR_MAP
                      THEN COLOR_MAP[str_lower(color_name)]
                      ELSE COLOR_MAP.reset
         IN  color \o text \o COLOR_MAP.reset

\* record.getMessage() raises: msg % args with arguments that msg has no
\* conversion for
getMessage_raises(record) ==
    record.args # <<>> /\ str_find(record.msg, <<"%", "s">>) = 0

\* record.getMessage(): msg when there are no arguments, msg % args otherwise
\* (one argument, converted by %s)
getMessage(record) ==
    IF record.args = <<>> THEN record.msg
    ELSE str_replace_first(record.msg, <<"%", "s">>, record.args[1])

max_message_length == 50

\* get_colored_message
get_colored_message(f, record, indent) ==
    LET color_name == str_lower(IF record.has_c THEN record.c ELSE "reset")
        whole == indent \o getMessage(record)
        message == IF f.truncate_messages /\ Len(whole) > max_message_length
                   THEN SubSeq(whole, 1, max_message_length - 3) \o <<".", ".", ".">>
                   ELSE whole
    IN  IF f.disable_colors THEN message ELSE apply_colors(f, message, color_name)

\* the fields format() is called with: funcName=record.funcName,
\* moduleName=record.name
format_kwargs(record) ==
    [x \in {"{funcName}", "{moduleName}"} |->
        IF x = "{funcName}" THEN record.funcName ELSE record.name]

\* the replacement fields that templates are written with
ReplacementFields == {"{funcName}", "{moduleName}", "{foo}"}

\* template.format(**kwargs) raises KeyError
str_format_raises(template, kwargs) ==
    \E i \in 1..Len(template) :
        template[i] \in ReplacementFields /\ template[i] \notin DOMAIN kwargs

\* template.format(**kwargs)
RECURSIVE str_format(_, _)
str_format(template, kwargs) ==
    IF template = <<>> THEN <<>>
    ELSE (IF Head(template) \in DOMAIN kwargs THEN kwargs[Head(template)]
          ELSE <<Head(template)>>)
         \o str_format(Tail(template), kwargs)

\* get_func_module_info raises
get_func_module_info_raises(f, record) ==
    f.func_module_format # <<>>
    /\ str_format_raises(f.func_module_format, format_kwargs(record))

\* get_func_module_info
get_func_module_info(f, record) ==
    IF f.func_module_format # <<>>
    THEN str_format(f.func_module_format, format_kwargs(record))
    ELSE <<>>

\* apply_padding
apply_padding(f, asctime, levelname, message, func_module_info) ==
    LET asctime_text == IF f.no_datetime THEN <<>> ELSE asctime
        stripped_message == IF ~f.disable_colors THEN strip_color_codes(message)
                            ELSE message
        current_length == Len(asctime_text) + (IF asctime_text # <<>> THEN 3 ELSE 0)
                          + Len(levelname) + 3 + Len(stripped_message)
        desired_column == f.min_func_name_col
    IN  IF func_module_info # <<>>
        THEN str_repeat(" ", Max(0, desired_column - current_length))
        ELSE <<>>

\* self.formatTime(record, self.datefmt): 23 characters with the default datefmt
formatTime(record) ==
    <<"2", "0", "2", "6", "-", "1", "1", "-", "0", "6", " ",
      "1", "0", ":", "0", "0", ":", "0", "0", ",", "0", "0", "0">>

\* ' - '
Separator == <<" ", "-", " ">>

\* logging.Formatter.format with the fmt of __init__:
\* '%(asctime)s - %(levelname)-8s - %(message)s', followed by
\* '%(padding)s{%(func_module_info)s}' when there is a template
Formatter_format(f, record, func_module_info, padding) ==
    formatTime(record) \o Separator \o str_ljust(record.levelname, 8) \o Separator
    \o getMessage(record)
    \o (IF f.func_module_format # <<>>
        THEN padding \o <<"{">> \o func_module_info \o <<"}">>
        ELSE <<>>)

\* formatted_message.split(' - ', 2) without its first part: the second part
\* when there are two, the second and the third joined by ' - ' when there are
\* three, the text itself when ' - ' does not occur
without_first_part(text) ==
    LET at == str_find(text, Separator)
    IN  IF at = 0 THEN text ELSE SubSeq(text, at + Len(Separator), Len(text))

\* the record as it is while super().format runs
set_message(record, message) == [record EXCEPT !.msg = message, !.args = <<>>]

\* format without the finally block: the record keeps the rendered message
keep_message(record, original_msg, original_args) == record

\* finally: record.msg, record.args = original_msg, original_args
restore_message(record, original_msg, original_args) ==
    [record EXCEPT !.msg = original_msg, !.args = original_args]

\* what a call of format that raises leaves behind
Raised(error, indent, after) ==
    [raised |-> error, indent |-> indent, message |-> <<>>,
     func_module_info |-> <<>>, padding |-> <<>>, line |-> <<>>, after |-> after]

\* IndentFormatter.format(record): the line returned or the exception raised,
\* the values computed on the way, and the record as the call leaves it
format(f, record, thread_indent) ==
    LET indent == get_indent(f, record, thread_indent)
        message == get_colored_message(f, record, indent)
        asctime == IF ~f.no_datetime THEN formatTime(record) ELSE <<>>
        asctime_colored == IF ~f.disable_colors /\ ~f.no_datetime
                           THEN apply_colors(f, asctime, "cyan") ELSE asctime
        levelname == str_ljust(record.levelname, 8)
        func_module_info == get_func_module_info(f, record)
        padding == apply_padding(f, asctime, levelname, message, func_module_info)
        original_msg == record.msg
        original_args == record.args
        during == set_message(record, message)
        after == restore_message(during, original_msg, original_args)
        formatted_message == Formatter_format(f, during, func_module_info, padding)
        line == IF f.no_datetime THEN without_first_part(formatted_message)
                ELSE IF ~f.disable_colors
                     THEN str_replace_first(formatted_message, asctime, asctime_colored)
                     ELSE formatted_message
    IN  IF getMessage_raises(record) THEN Raised("TypeError", indent, record)
        ELSE IF get_func_module_info_raises(f, record)
             THEN Raised("KeyError", indent, record)
        ELSE IF record.exc_info = "bad" THEN Raised("Exception", indent, after)
        ELSE [raised |-> "none", indent |-> indent, message |-> message,
              func_module_info |-> func_module_info, padding |-> padding,
              line |-> line, after |-> after]

\* a call of format on a record, by unit u at the depth its thread is at
Call_format(u, record) ==
    LET thread_indent == LevelSeenBy(u)
        result == format(fmt, record, thread_indent)
    IN  [unit |-> u, record |-> record, thread_indent |-> thread_indent,
         raised |-> result.raised, indent |-> result.indent,
         message |-> result.message, func_module_info |-> result.func_module_info,
         padding |-> result.padding, line |-> result.line, after |-> result.after]

\* unit u logs a record and a handler formats it
Format(u, record) ==
    /\ CanRun(u)
    /\ rendered' = <<Call_format(u, record)>>
    /\ UNCHANGED <<ctor, fmt>>
    /\ UNCHANGED restOfFormat

\* the next handler formats the record that was just formatted, as the first
\* call left it (the handlers of a logger are called one after the other)
FormatAgain(u) ==
    /\ CanRun(u)
    /\ Len(rendered) = 1
    /\ rendered[1].unit = u
    /\ rendered[1].thread_indent = LevelSeenBy(u)
    /\ rendered' = Append(rendered, Call_format(u, rendered[1].after))
    /\ UNCHANGED <<ctor, fmt>>
    /\ UNCHANGED restOfFormat

\* no formatter is in use
IdleFormat ==
    /\ ctor = DefaultArgs
    /\ fmt = formatter_init(ctor)
    /\ rendered = <<>>

\* IndentFormatter(...) has been constructed, for indentation
InitFormat ==
    /\ ctor \in CtorArgs
    /\ fmt = formatter_init(ctor)
    /\ rendered = <<>>

\* IndentFormatter(...) has been constructed, for rendering
InitRender ==
    /\ ctor \in RenderArgs
    /\ fmt = formatter_init(ctor)
    /\ rendered = <<>>

NextFormat ==
    \/ Increase("b")
    \/ \E u \in Units, record \in Records : Format(u, record)

NextRender ==
    \/ Increase("b")
    \/ \E record \in RenderRecords : Format("b", record)
    \/ FormatAgain("b")

----------------------------------------------------------------------------
(* Specifications *)

InitIndent ==
    /\ has_attr = [t \in Threads |-> FALSE]
    /\ indent_level = [t \in Threads |-> 0]
    /\ running = [t \in Threads |-> IF t = "A" THEN "a1" ELSE "b"]
    /\ stack = [u \in Units |-> <<>>]
    /\ exc = [u \in Units |-> FALSE]
    /\ hist = [t \in Threads |-> <<>>]
    /\ actor = "none"

\* no structure is dumped
IdleDump ==
    /\ heap = <<[kind |-> "dict", items |-> <<>>]>>
    /\ phase = "build"
    /\ args = [lvl |-> 0, exclude |-> {}, name |-> ""]
    /\ dstack = <<>>
    /\ visited = {}
    /\ out = <<>>
    /\ ncalls = 0
    /\ first_out = <<>>

Init == InitIndent /\ IdleDump /\ IdleFormat

\* the depth tracker and the scope guard, used freely
Next ==
    \/ \E u \in Units : Read(u)
    \/ \E u \in Units : Increase(u)
    \/ \E u \in Units : Decrease(u)
    \/ \E u \in Units : Enter(u)
    \/ \E u \in Units, how \in {"return", "raise"} : Exit(u, how)
    \/ \E u \in Units : Catch(u)
    \/ \E u \in Units : Yield(u)

Spec == Init /\ [][Next]_vars

\* the counter is mutated only through log_indent
NextScope ==
    \/ \E u \in Units : Read(u)
    \/ \E u \in Units : Enter(u)
    \/ \E u \in Units, how \in {"return", "raise"} : Exit(u, how)
    \/ \E u \in Units : Catch(u)
    \/ \E u \in Units : Yield(u)

SpecScope == Init /\ [][NextScope]_vars

\* a structure is built, then dumped twice
InitBuild == InitIndent /\ InitDump /\ IdleFormat

SpecDump == InitBuild /\ [][NextDump]_vars

InitFormatter == InitIndent /\ IdleDump /\ InitFormat

\* records are formatted while thread B goes deeper
SpecFormat == InitFormatter /\ [][NextFormat]_vars

InitRenderer == InitIndent /\ IdleDump /\ InitRender

\* records are rendered, some of them twice, while thread B goes deeper
SpecRender == InitRenderer /\ [][NextRender]_vars

----------------------------------------------------------------------------
(* Depth tracker and scope guard: properties *)

Ops(t, k) == [i \in 1..k |-> hist[t][i].op]

Incs(t, k) == Cardinality({i \in 1..k : hist[t][i].op = "inc"})

Decs(t, k) == Cardinality({i \in 1..k : hist[t][i].op = "dec"})

DepthBefore(t, i) == IF i = 1 THEN 0 ELSE hist[t][i - 1].depth

\* the decreases made at depth 0 among the first k calls
NoopDecs(t, k) ==
    Cardinality({i \in 1..k : hist[t][i].op = "dec" /\ DepthBefore(t, i) = 0})

\* C1 as stated: after every call on a thread the depth is never negative and
\* equals max(0, increases so far - decreases so far)
C1_DepthIsMaxZeroDifference ==
    \A t \in Threads : \A k \in 1..Len(hist[t]) :
        /\ hist[t][k].depth >= 0
        /\ hist[t][k].depth = Max(0, Incs(t, k) - Decs(t, k))

\* C1 amended: the depth is never negative; every increase adds 1 and every
\* decrease subtracts 1, except that a decrease at depth 0 leaves 0, so the depth
\* equals increases - decreases + (decreases made at depth 0), which is
\* max(0, increases - decreases) as long as no decrease was made at depth 0;
\* increase, increase, decrease, increase is observed as 1, 2, 1, 2
C1_DepthIsClampedWalk ==
    \A t \in Threads : \A k \in 1..Len(hist[t]) :
        /\ hist[t][k].depth >= 0
        /\ hist[t][k].depth = Incs(t, k) - Decs(t, k) + NoopDecs(t, k)
        /\ NoopDecs(t, k) = 0 => hist[t][k].depth = Max(0, Incs(t, k) - Decs(t, k))
        /\ (hist[t][k].op = "dec" /\ DepthBefore(t, k) = 0) => hist[t][k].depth = 0
        /\ (k = 4 /\ Ops(t, 4) = <<"inc", "inc", "dec", "inc">>)
              => [i \in 1..4 |-> hist[t][i].depth] = <<1, 2, 1, 2>>

\* a decrease at depth 0 followed by an increase on one thread, and the
\* scenario increase, increase, decrease, increase on the other
C1_Witness ==
    /\ Len(hist["A"]) >= 2 /\ Ops("A", 2) = <<"dec", "inc">>
    /\ Len(hist["B"]) = 4 /\ Ops("B", 4) = <<"inc", "inc", "dec", "inc">>

Top(u) == stack[u][Len(stack[u])]

\* C3: entering a wrapped function adds exactly 1 to the depth before the body
\* starts; on every exit of the body (return or exception), if the body left the
\* depth as it found it, the depth after the wrapper equals the depth before it
C3_ScopeGuardRestoresDepth ==
    [][\A u \in Units :
          /\ Len(stack'[u]) = Len(stack[u]) + 1 =>
                /\ LevelSeenBy(u)' = LevelSeenBy(u) + 1
                /\ stack'[u][Len(stack'[u])] = LevelSeenBy(u)
          /\ (Len(stack'[u]) = Len(stack[u]) - 1 /\ LevelSeenBy(u) = Top(u) + 1) =>
                LevelSeenBy(u)' = Top(u)]_vars

\* an inner wrapper exited by an exception with the outer one still active,
\* and the depth is back to what the outer body had
C3_Witness ==
    \E u \in Units : exc[u] /\ Len(stack[u]) = 1 /\ LevelSeenBy(u) = stack[u][1] + 1

\* C4: when only log_indent changes the counter, the depth of a thread is the
\* number of wrapped calls entered and not yet exited on it
C4_DepthIsActiveScopes ==
    \A t \in Threads : LevelOfThread(t) = ActiveOn(t)

\* two nested wrappers are active on thread A, and on thread B a wrapped call
\* has exited by an exception
C4_Witness ==
    /\ \E u \in UnitsOf("A") : Len(stack[u]) = 2
    /\ exc["b"] /\ stack["b"] = <<>> /\ Len(hist["B"]) = 2

----------------------------------------------------------------------------
(* Structured dumper: properties *)

Succ(id) == {heap[id].items[i].v : i \in {j \in 1..Len(heap[id].items) : heap[id].items[j].ref}}

RECURSIVE ReachFrom(_, _)
ReachFrom(S, n) == IF n = 0 THEN S ELSE ReachFrom(S \cup UNION {Succ(x) : x \in S}, n - 1)

\* no dict or list of the structure contains itself, directly or not
Acyclic == \A id \in 1..Len(heap) : id \notin ReachFrom(Succ(id), Len(heap))

Sentinels == {j \in 1..Len(out) : out[j].t = "recursion"}

\* the structure is one dict that holds itself: a["self"] = a
SelfReferentialMapping ==
    /\ Len(heap) = 1
    /\ heap[1].kind = "dict"
    /\ \E i \in 1..Len(heap[1].items) : heap[1].items[i].ref

\* the keys under which the dict holds itself and that are dumped
CyclicBranches ==
    {i \in 1..Len(heap[1].items) : heap[1].items[i].ref /\ Keys[i] \notin args.exclude}

StartLevel == IF args.name # "" THEN args.lvl + 1 ELSE args.lvl

\* C5, what holds while and after the call: no dict is entered twice, every dict
\* being walked was marked visited before, and the dump of a self-referential
\* mapping raises nothing and ends with exactly one sentinel line per cyclic
\* branch, right under the header of its key
C5_SelfReferenceSafe ==
    /\ \A i \in 1..Len(dstack) : dstack[i].fn = "obj" =>
          /\ dstack[i].id \in visited
          /\ \A j \in 1..Len(dstack) : (dstack[j].fn = "obj" /\ dstack[j].id = dstack[i].id) => j = i
    /\ (SelfReferentialMapping /\ ncalls > 0) =>
          /\ phase # "raised"
          /\ phase = "done" =>
                /\ Cardinality(Sentinels) = Cardinality(CyclicBranches)
                /\ \A j \in Sentinels :
                      /\ j > 1
                      /\ out[j].lvl = StartLevel + 1
                      /\ out[j - 1].t = "key" /\ out[j - 1].lvl = StartLevel

\* the work left to the running call: the items its loops have not handled yet,
\* plus one return per active call
WorkLeft ==
    LET RECURSIVE Sum(_)
        Sum(i) == IF i = 0 THEN 0
                  ELSE (Len(heap[dstack[i].id].items) + 1 - dstack[i].idx) + 1 + Sum(i - 1)
    IN Sum(Len(dstack))

C6_DumpNeverRaises == phase # "raised"

\* how many items of the structure hold the object id
TimesHeld(id) ==
    LET RECURSIVE Count(_)
        Count(o) == IF o = 0 THEN 0
                    ELSE Cardinality({i \in 1..Len(heap[o].items) :
                                         heap[o].items[i] = Ref(id)}) + Count(o - 1)
    IN Count(Len(heap))

\* one dict is held at two places of a structure without cycles
SharedMapping ==
    /\ Acyclic
    /\ \E id \in 1..Len(heap) : heap[id].kind = "dict" /\ TimesHeld(id) >= 2

\* C7 as stated: a dict that appears twice in non-cyclic positions is not
\* reported as a cycle: its dump has no sentinel line
C7_SharingIsNotACycle ==
    (phase = "done" /\ SharedMapping) => Sentinels = {}

\* C8: two top-level calls on the same acyclic structure, with the same
\* arguments, emit the same (message, depth) lines
C8_SecondDumpIsIdentical ==
    (ncalls = 2 /\ phase = "done" /\ Acyclic) => out = first_out

\* a nested structure without cycles has been dumped twice
C8_Witness ==
    /\ ncalls = 2 /\ phase = "done" /\ Acyclic
    /\ Len(heap) = 3 /\ Len(out) >= 5
    /\ first_out = out

RECURSIVE LayoutLines(_, _, _)
\* the lines C9 prescribes for the items i, i+1, ... of the dict or list id
\* dumped at depth d (keys listed in exclude are skipped)
LayoutLines(id, d, i) ==
    IF i > Len(heap[id].items) THEN <<>>
    ELSE LET item == heap[id].items[i]
             sub == IF IsDict(item) \/ IsList(item)
                    THEN LayoutLines(item.v, d + 1, 1) ELSE <<>>
             here ==
                IF heap[id].kind = "list"
                THEN IF IsDict(item) \/ IsList(item)
                     THEN <<Line("index", "", i - 1, 0, d)>> \o sub
                     ELSE <<Line("indexvalue", "", i - 1, Text(item), d)>>
                ELSE IF Keys[i] \in args.exclude THEN <<>>
                ELSE IF IsDict(item) THEN <<Line("key", Keys[i], 0, 0, d)>> \o sub
                ELSE IF IsList(item)
                     THEN <<Line("keylist", Keys[i], 0, Len(heap[item.v].items), d)>> \o sub
                ELSE <<Line("keyvalue", Keys[i], 0, Text(item), d)>>
         IN here \o LayoutLines(id, d, i + 1)

NameLines == IF args.name # "" THEN <<Line("name", args.name, 0, 0, args.lvl)>> ELSE <<>>

\* C9 as stated: a dict dumped at depth d yields, key by key, one 'key: value'
\* line at d for a leaf, and for a dict or list one header line at d followed by
\* the lines of its children at d+1, list items in ascending index order
C9_MappingLayout ==
    (phase = "done" /\ Acyclic /\ heap[1].kind = "dict") =>
        out = NameLines \o LayoutLines(1, StartLevel, 1)

\* every dict or list is held at one place only
TreeShaped == Acyclic /\ \A id \in 1..Len(heap) : TimesHeld(id) <= 1

\* the layout of C9 on structures where no dict or list is shared
LayoutOnTrees ==
    (phase = "done" /\ TreeShaped /\ heap[1].kind \in {"dict", "object"}) =>
        out = NameLines \o LayoutLines(1, StartLevel, 1)

\* dump({"x": 1, "y": [1, 2, 3]}, depth 0) has emitted its five lines
LayoutScenario ==
    /\ heap = <<[kind |-> "dict", items |-> <<Leaf(1), Ref(2)>>],
                [kind |-> "list", items |-> <<Leaf(1), Leaf(1), Leaf(1)>>]>>
    /\ args = [lvl |-> 0, exclude |-> {}, name |-> ""]
    /\ phase = "done"
    /\ out = <<Line("keyvalue", "x", 0, 1, 0), Line("keylist", "y", 0, 3, 0),
               Line("indexvalue", "", 0, 1, 1), Line("indexvalue", "", 1, 1, 1),
               Line("indexvalue", "", 2, 1, 1)>>

\* C15: a list passed at the top level is iterated with its index, one line
\* or sub-tree per element labelled with its position, and is not emitted as
\* one line that holds the whole list
C15_TopLevelSequenceIsIterated ==
    (phase = "done" /\ TreeShaped /\ heap[1].kind = "list" /\ heap[1].items # <<>>) =>
        /\ out = NameLines \o LayoutLines(1, StartLevel, 1)
        /\ \A n \in 1..Len(out) : out[n].t # "value"

\* what the dump of a list passed at the top level is: one line with the text
\* of the whole list, at the starting depth
TopLevelSequenceIsOneLine ==
    (phase = "done" /\ heap[1].kind = "list") =>
        out = NameLines \o <<Line("value", "", 0, Text(Ref(1)), StartLevel)>>

\* a list of two items has been dumped at the top level
TopLevelSequenceScenario ==
    /\ phase = "done"
    /\ heap = <<[kind |-> "list", items |-> <<Leaf(1), Leaf(1)>>]>>

\* the dicts and lists held by id under a key that is not excluded, or held
\* by a list
KeptSucc(id) ==
    {heap[id].items[i].v :
        i \in {j \in 1..Len(heap[id].items) :
                  /\ heap[id].items[j].ref
                  /\ heap[id].kind = "list" \/ Keys[j] \notin args.exclude}}

RECURSIVE KeptFrom(_, _)
KeptFrom(S, n) ==
    IF n = 0 THEN S ELSE KeptFrom(S \cup UNION {KeptSucc(x) : x \in S}, n - 1)

\* what the call may descend into: the object passed, and from a dict or
\* object what can be reached without passing an excluded key
MayDescend ==
    IF heap[1].kind = "list" THEN {1} ELSE KeptFrom({1}, Len(heap))

KeyLines == {"key", "keylist", "keyvalue"}

\* the keys of the object passed that are not excluded, in order
RECURSIVE KeptKeys(_)
KeptKeys(i) ==
    IF i > Len(heap[1].items) THEN <<>>
    ELSE (IF Keys[i] \in args.exclude THEN <<>> ELSE <<Keys[i]>>) \o KeptKeys(i + 1)

\* the keys of the lines emitted at the depth of the object passed
RECURSIVE KeysAtStart(_)
KeysAtStart(n) ==
    IF n > Len(out) THEN <<>>
    ELSE (IF out[n].t \in KeyLines /\ out[n].lvl = StartLevel
          THEN <<out[n].k>> ELSE <<>>) \o KeysAtStart(n + 1)

\* C16: during and after a call, no line is emitted for an excluded key and
\* nothing held under an excluded key is descended into, at any level, also in
\* dicts inside lists; every key that is not excluded gets its lines; a name
\* gives exactly one more line, the first, at the starting depth, and every
\* other line is at least one level deeper
C16_ExcludeAndName ==
    ncalls > 0 =>
        /\ \A n \in 1..Len(out) : out[n].t \in KeyLines => out[n].k \notin args.exclude
        /\ \A n \in 1..Len(dstack) : dstack[n].id \in MayDescend
        /\ visited \subseteq MayDescend
        /\ IF args.name # ""
           THEN /\ out # <<>>
                /\ out[1] = Line("name", args.name, 0, 0, args.lvl)
                /\ \A n \in 2..Len(out) : out[n].t # "name" /\ out[n].lvl >= args.lvl + 1
           ELSE \A n \in 1..Len(out) : out[n].t # "name" /\ out[n].lvl >= args.lvl
        /\ (phase = "done" /\ heap[1].kind \in {"dict", "object"}) =>
              KeysAtStart(1) = KeptKeys(1)
        /\ LayoutOnTrees

\* a dict inside a list has a key that is excluded and one that is not, and the
\* dump is over
C16_Witness ==
    /\ phase = "done"
    /\ args.exclude = {"y"}
    /\ heap[1].kind = "dict"
    /\ \E l \in KeptSucc(1), d \in 1..Len(heap) :
          /\ heap[l].kind = "list"
          /\ d \in KeptSucc(l)
          /\ heap[d].kind = "dict"
          /\ Len(heap[d].items) = 2
    /\ Len(out) = 3

\* a dict held under an excluded key was not descended into
ExcludedValueScenario ==
    /\ phase = "done"
    /\ args.exclude = {"y"}
    /\ heap = <<[kind |-> "dict", items |-> <<Leaf(1), Ref(2)>>],
                [kind |-> "dict", items |-> <<Leaf(1)>>]>>
    /\ out = <<Line("keyvalue", "x", 0, 1, 1)>>
    /\ visited = {1}

\* a name was given: its line comes first and the content is one level deeper
NameScenario ==
    /\ phase = "done"
    /\ args = [lvl |-> 1, exclude |-> {}, name |-> "cfg"]
    /\ heap = <<[kind |-> "dict", items |-> <<Leaf(1)>>]>>
    /\ out = <<Line("name", "cfg", 0, 0, 1), Line("keyvalue", "x", 0, 1, 2)>>

----------------------------------------------------------------------------
(* Line renderer: properties of the indentation *)

\* the hierarchy term of C10, from the options the formatter was given
HierarchyTerm(name) ==
    (IF ctor.indent_modules /\ name # MainName THEN 1 ELSE 0)
    + (IF ctor.indent_packages THEN str_count(name, ".") ELSE 0)

\* context depth + manual hint + hierarchy term of the record last formatted
TotalDepth(r) ==
    r.thread_indent + (IF r.record.has_lvl THEN r.record.lvl ELSE 0)
    + HierarchyTerm(r.record.name)

OnlySpaces(text) == \A i \in 1..Len(text) : text[i] = " "

\* C10 as stated: the indentation is exactly (context depth + manual hint +
\* hierarchy term) * spaces per level spaces, and empty when indentation is
\* disabled
C10_IndentIsTotalTimesSpaces ==
    \A i \in 1..Len(rendered) :
        /\ OnlySpaces(rendered[i].indent)
        /\ Len(rendered[i].indent) =
              IF ctor.disable_indent THEN 0
              ELSE TotalDepth(rendered[i]) * ctor.indent_spaces

\* C10 amended: the indentation is max(0, context depth + manual hint +
\* hierarchy term) * spaces per level spaces (a negative total, which a negative
\* manual hint can produce, gives no indentation), and empty when indentation is
\* disabled
C10_IndentIsClampedTotal ==
    \A i \in 1..Len(rendered) :
        /\ OnlySpaces(rendered[i].indent)
        /\ Len(rendered[i].indent) =
              IF ctor.disable_indent THEN 0
              ELSE Max(0, TotalDepth(rendered[i])) * ctor.indent_spaces

\* a record of a nested logger formatted at context depth 2 with a manual
\* hint, both hierarchy options on: (2 + 1 + 1 + 2) * 4 spaces
C10_Witness ==
    /\ ctor = [DefaultArgs EXCEPT !.indent_modules = TRUE, !.indent_packages = TRUE]
    /\ Len(rendered) = 1
    /\ rendered[1].thread_indent = 2
    /\ rendered[1].record = [PlainRecord EXCEPT !.name = <<"app", ".", "mod", ".", "sub">>,
                                                !.has_lvl = TRUE, !.lvl = 1]
    /\ Len(rendered[1].indent) = 24

----------------------------------------------------------------------------
(* Line renderer: properties of the rendered line *)

\* the calls of format that returned a line
Returned == {i \in 1..Len(rendered) : rendered[i].raised = "none"}

\* the visible characters of a text: the text without its escape sequences
\* (those that occur are the ones of COLOR_MAP)
Visible(text) == strip_color_codes(text)

HasEscape(text) == \E k \in 1..Len(text) : text[k] = ESC

\* the message of the record carries no escape sequence of its own
PlainText(r) == ~HasEscape(r.record.msg)

\* C11: a formatter with colour disabled renders lines that contain no escape
\* sequence, whatever the colour tag, the message text and the other options
\* are
C11_NoEscapeWhenColorDisabled ==
    fmt.disable_colors => \A i \in Returned : ~HasEscape(rendered[i].line)

\* with colour disabled the formatter adds no escape sequence of its own
NoEscapeOnPlainText ==
    fmt.disable_colors =>
        \A i \in Returned : PlainText(rendered[i]) => ~HasEscape(rendered[i].line)

\* a record tagged with a colour is rendered by a formatter with colour
\* disabled, with timestamp and annotation
NoEscapeScenario ==
    /\ fmt.disable_colors /\ ~fmt.no_datetime
    /\ \E i \in Returned :
          /\ rendered[i].record.has_c
          /\ rendered[i].func_module_info # <<>>

\* the indented message of a call, before truncation and colour
IndentedMessage(r) == r.indent \o getMessage(r.record)

\* C12: with truncation enabled, an indented message of more than 50 visible
\* characters is rendered as its first 47 visible characters followed by
\* '...', 50 visible characters in all, and one of at most 50 visible
\* characters is rendered unchanged; the length is the visible one
C12_TruncationByVisibleLength ==
    fmt.truncate_messages =>
        \A i \in Returned :
            LET whole == Visible(IndentedMessage(rendered[i]))
                field == Visible(rendered[i].message)
            IN  IF Len(whole) > 50
                THEN /\ Len(field) = 50
                     /\ SubSeq(field, 1, 47) = SubSeq(whole, 1, 47)
                     /\ SubSeq(field, 48, 50) = <<".", ".", ".">>
                ELSE field = whole

\* the truncation of C12 on messages that carry no escape sequence of their own
TruncationOnPlainText ==
    fmt.truncate_messages =>
        \A i \in Returned :
            PlainText(rendered[i]) =>
                LET whole == IndentedMessage(rendered[i])
                    field == Visible(rendered[i].message)
                IN  IF Len(whole) > 50
                    THEN /\ Len(field) = 50
                         /\ SubSeq(field, 1, 47) = SubSeq(whole, 1, 47)
                         /\ SubSeq(field, 48, 50) = <<".", ".", ".">>
                    ELSE field = whole

\* a coloured message of 51 characters is truncated at depth 1, and one of 50
\* characters would not be at depth 0
TruncationScenario ==
    /\ fmt.truncate_messages /\ ~fmt.disable_colors
    /\ \E i \in Returned :
          /\ rendered[i].record.has_c
          /\ Len(rendered[i].record.msg) = 51
          /\ rendered[i].thread_indent = 1

\* what stands before the padding: timestamp and separator, unless the
\* timestamp is left out, then level, separator and message
BeforePadding(r) ==
    (IF fmt.no_datetime THEN <<>> ELSE formatTime(r.record) \o Separator)
    \o str_ljust(r.record.levelname, 8) \o Separator \o r.message

\* C13: when an annotation is shown the padding has max(0, target column -
\* visible length of timestamp, separator, level, separator and message)
\* spaces, the length being measured without escape sequences; when no
\* annotation is shown the padding is empty
C13_PaddingByVisibleLength ==
    \A i \in Returned :
        IF rendered[i].func_module_info # <<>>
        THEN /\ OnlySpaces(rendered[i].padding)
             /\ Len(rendered[i].padding) =
                   Max(0, fmt.min_func_name_col
                          - Len(Visible(BeforePadding(rendered[i]))))
        ELSE rendered[i].padding = <<>>

\* the padding of C13 on messages that carry no escape sequence of their own
PaddingOnPlainText ==
    \A i \in Returned :
        PlainText(rendered[i]) =>
            IF rendered[i].func_module_info # <<>>
            THEN /\ OnlySpaces(rendered[i].padding)
                 /\ Len(rendered[i].padding) =
                       Max(0, fmt.min_func_name_col
                              - Len(Visible(BeforePadding(rendered[i]))))
            ELSE rendered[i].padding = <<>>

\* an annotation is shown after a coloured message, and the text before it is
\* longer than the target column
PaddingScenario ==
    /\ ~fmt.disable_colors
    /\ \E i \in Returned :
          /\ rendered[i].func_module_info # <<>>
          /\ rendered[i].padding = <<>>
          /\ Len(Visible(BeforePadding(rendered[i]))) > fmt.min_func_name_col

\* the template names a field other than the function and the module name
Malformed(template) ==
    \E i \in 1..Len(template) :
        template[i] \in ReplacementFields \ {"{funcName}", "{moduleName}"}

\* C14: a formatter that formats a record was not constructed from a malformed
\* annotation template (construction rejects it), and format raises no
\* template error for any record
C14_TemplateRejectedAtConstruction ==
    \A i \in 1..Len(rendered) :
        /\ ~Malformed(fmt.func_module_format)
        /\ rendered[i].raised # "KeyError"

\* format raises only on templates that are malformed
TemplateErrorOnlyWhenMalformed ==
    \A i \in 1..Len(rendered) :
        rendered[i].raised = "KeyError" <=> Malformed(fmt.func_module_format)
                                            /\ ~getMessage_raises(rendered[i].record)

\* C17: format leaves msg and args of the record as they were before the call,
\* whether it returns or raises, and a second call on the same record at the
\* same depth gives what the first call gave
C17_FormatRestoresRecord ==
    /\ \A i \in 1..Len(rendered) :
          /\ rendered[i].after.msg = rendered[i].record.msg
          /\ rendered[i].after.args = rendered[i].record.args
    /\ Len(rendered) = 2 =>
          /\ rendered[2].record = rendered[1].record
          /\ rendered[2].raised = rendered[1].raised
          /\ rendered[2].message = rendered[1].message
          /\ rendered[2].line = rendered[1].line

\* a message of 51 characters with an argument-free colour tag is formatted
\* twice at depth 1 by a formatter that indents, truncates and colours
C17_Witness ==
    /\ fmt.truncate_messages /\ ~fmt.disable_colors
    /\ Len(rendered) = 2
    /\ rendered[2].raised = "none"
    /\ rendered[2].thread_indent = 1
    /\ rendered[2].record.has_c
    /\ Len(rendered[2].record.msg) = 51
    /\ rendered[2].message # rendered[2].record.msg

\* format raised inside the try block and the record was formatted again
RestoredAfterRaise ==
    /\ Len(rendered) = 2
    /\ rendered[1].raised = "Exception"

====
